---- MODULE Spec2Model ----
(***************************************************************************)
(* Model of src/frost/aggregator.py (class Aggregator) of FROST-BIP340.    *)
(*                                                                         *)
(* The Aggregator object is the state (its three fields); every method is  *)
(* an action that records the call and what it returned or raised in       *)
(* `result`.  The methods themselves are operators translated statement by *)
(* statement, so that claims about them are state predicates over the      *)
(* recorded call.                                                          *)
(*                                                                         *)
(* Scaled parameters.  TLC has 32-bit integers, so the 256-bit objects are *)
(* scaled: the curve is y^2 = x^3 + 7 over F_13 (the secp256k1 equation    *)
(* over a small field; its group has prime order 7), and the hash has a    *)
(* 2-byte digest.  Everything the aggregator itself fixes keeps its true   *)
(* size: the 1-byte index encoding, the 32-byte big-endian fields, the     *)
(* 33-byte SEC form, the 64-byte signature and its 128 hex characters.     *)
(***************************************************************************)
EXTENDS Integers, Sequences, FiniteSets

VARIABLES message, nonce_commitment_pairs, participant_indexes, given, result

vars == <<message, nonce_commitment_pairs, participant_indexes, given, result>>

(***************************************************************************)
(* Bytes                                                                   *)
(***************************************************************************)
ByteRange == 256

Byte == 0 .. (ByteRange - 1)

RECURSIVE Concat(_)
\* b"".join(list)
Concat(list) ==
    IF list = <<>> THEN <<>> ELSE Head(list) \o Concat(Tail(list))

RECURSIVE Fits(_, _)
\* int.to_bytes(length, "big") raises OverflowError unless 0 <= v < 256^length
Fits(v, length) ==
    /\ v >= 0
    /\ v = 0 \/ (length > 0 /\ Fits(v \div ByteRange, length - 1))

RECURSIVE Digit(_, _)
\* digit k of v in base 256, counted from the right: (v div 256^k) mod 256
Digit(v, k) ==
    IF v = 0 THEN 0
    ELSE IF k = 0 THEN v % ByteRange
    ELSE Digit(v \div ByteRange, k - 1)

\* int.to_bytes(length, "big") of a value that fits
to_bytes(v, length) == [i \in 1 .. length |-> Digit(v, length - i)]

RECURSIVE from_bytes(_)
\* int.from_bytes(bytes, "big")
from_bytes(bytes) ==
    IF bytes = <<>> THEN 0
    ELSE from_bytes(SubSeq(bytes, 1, Len(bytes) - 1)) * ByteRange
         + bytes[Len(bytes)]

HexDigits == <<"0", "1", "2", "3", "4", "5", "6", "7",
               "8", "9", "a", "b", "c", "d", "e", "f">>

\* bytes.hex(): two lowercase hex characters per byte, high nibble first
hex(bytes) ==
    [i \in 1 .. 2 * Len(bytes) |->
        LET b == bytes[(i + 1) \div 2]
        IN  IF i % 2 = 1 THEN HexDigits[(b \div 16) + 1] ELSE HexDigits[(b % 16) + 1]]

(***************************************************************************)
(* hashlib.sha256, scaled to a 2-byte digest.  The hash object is its      *)
(* buffer: update appends, digest hashes the whole buffer.                 *)
(***************************************************************************)
digest_size == 2

HashSpace == ByteRange ^ digest_size

RECURSIVE Absorb(_, _, _, _)
\* the compression of buf[lo .. hi], byte by byte from left to right
\* (length-sensitive).  The range is halved, and the left half's state is
\* computed first, only to bound the evaluation depth.
Absorb(h, buf, lo, hi) ==
    IF lo > hi THEN h
    ELSE IF lo = hi THEN (h * 33 + buf[lo] + 1) % HashSpace
    ELSE LET left == Absorb(h, buf, lo, (lo + hi) \div 2)
         IN  IF left < 0 THEN left
             ELSE Absorb(left, buf, ((lo + hi) \div 2) + 1, hi)

\* sha256(): a hash object that has absorbed nothing
sha256_new == <<>>

\* hash.update(data)
update(h, data) == h \o data

\* hash.digest()
digest(h) == to_bytes(Absorb(HashSpace \div 3, h, 1, Len(h)), digest_size)

sha256(data) == update(sha256_new, data)

(***************************************************************************)
(* frost.constants.Q and frost.point.Point (external collaborators of the  *)
(* aggregator; not part of aggregator.py).  Modelled from the interface    *)
(* the specification lists: identity, addition, scalar multiplication,     *)
(* SEC and x-only serialisation, group order Q.                            *)
(***************************************************************************)
P == 13

Q == 7

\* Point(): the point at infinity
Infinity == [inf |-> TRUE, x |-> 0, y |-> 0]

Pt(x, y) == [inf |-> FALSE, x |-> x, y |-> y]

CurvePoints ==
    {Pt(x, y) : <<x, y>> \in
        {c \in (0 .. P - 1) \X (0 .. P - 1) :
            (c[2] * c[2]) % P = (c[1] * c[1] * c[1] + 7) % P}}

Points == CurvePoints \cup {Infinity}

Inv(a) == CHOOSE i \in 1 .. P - 1 : (i * a) % P = 1

\* Point.__add__
PointAdd(A, B) ==
    IF A.inf THEN B
    ELSE IF B.inf THEN A
    ELSE IF A.x = B.x /\ (A.y + B.y) % P = 0 THEN Infinity
    ELSE LET s == IF A.x = B.x
                  THEN (3 * A.x * A.x * Inv((2 * A.y) % P)) % P
                  ELSE ((B.y - A.y) * Inv((B.x - A.x) % P)) % P
             x3 == (s * s - A.x - B.x) % P
             y3 == (s * (A.x - x3) - A.y) % P
         IN  Pt(x3, y3)

RECURSIVE ScalarMul(_, _)
\* Point.__rmul__: scalar * point, by double-and-add
ScalarMul(k, A) ==
    IF k = 0 THEN Infinity
    ELSE LET half == ScalarMul(k \div 2, A)
             dbl == PointAdd(half, half)
         IN  IF k % 2 = 1 THEN PointAdd(dbl, A) ELSE dbl

\* Point.sec_serialize: parity prefix, then the 32-byte x coordinate
sec_serialize(A) ==
    <<IF A.y % 2 = 0 THEN 2 ELSE 3>> \o to_bytes(A.x, 32)

\* Point.xonly_serialize: the 32-byte x coordinate (a fixed 32-byte value for
\* every point; the identity has no coordinate and serialises as zero)
xonly_serialize(A) == to_bytes(A.x, 32)

(***************************************************************************)
(* What a call does: return a value or raise.                              *)
(***************************************************************************)
Return(v) == [err |-> "None", val |-> v]

Raise(e) == [err |-> e, val |-> <<>>]

Returned(r) == r.err = "None"

(***************************************************************************)
(* class Aggregator: the class methods                                     *)
(***************************************************************************)
\* one out-of-range test, written twice in the source (lines 74 and 123)
OutOfRange(index, pairs) == index < 1 \/ index > Len(pairs)

\* nonce_commitment_pairs[idx - 1], both points serialised, D then E
participant_pair_bytes(idx, pairs) ==
    Concat([k \in 1 .. 2 |-> sec_serialize(pairs[idx][k])])

RECURSIVE CollectPairs(_, _, _)
\* the loop of binding_value over participant_indexes, in the order given; it
\* raises at the first index that is out of range
CollectPairs(rest, pairs, acc) ==
    IF rest = <<>> THEN Return(acc)
    ELSE IF OutOfRange(Head(rest), pairs) THEN Raise("ValueError")
    ELSE CollectPairs(Tail(rest), pairs,
                      Append(acc, participant_pair_bytes(Head(rest), pairs)))

\* binding_value with the digest reduced modulo Q
binding_value_reduced(index, msg, pairs, indexes) ==
    IF index < 1 THEN Raise("ValueError")
    ELSE IF ~Fits(index, 1) THEN Raise("OverflowError")
    ELSE LET collected == CollectPairs(indexes, pairs, <<>>)
         IN  IF ~Returned(collected) THEN collected
             ELSE Return(from_bytes(digest(
                      update(update(update(sha256_new, to_bytes(index, 1)), msg),
                             Concat(collected.val)))) % Q)

binding_value(index, msg, pairs, indexes) ==
    IF index < 1 THEN Raise("ValueError")
    ELSE IF ~Fits(index, 1) THEN Raise("OverflowError")
    ELSE LET index_byte == to_bytes(index, 1)
             collected == CollectPairs(indexes, pairs, <<>>)
         IN  IF ~Returned(collected) THEN collected
             ELSE LET h1 == update(sha256_new, index_byte)
                      h2 == update(h1, msg)
                      h3 == update(h2, Concat(collected.val))
                  IN  Return(from_bytes(digest(h3)))

\* the loop body with `=` for `+=`: the accumulator is overwritten
LoopBody_overwrite(acc, index, msg, pairs, indexes) ==
    IF OutOfRange(index, pairs) THEN Raise("ValueError")
    ELSE LET bv == binding_value(index, msg, pairs, indexes)
         IN  IF ~Returned(bv) THEN bv
             ELSE Return(PointAdd(pairs[index][1],
                                  ScalarMul(bv.val, pairs[index][2])))

\* one turn of the loop of group_commitment, for `index`
LoopBody(acc, index, msg, pairs, indexes) ==
    IF OutOfRange(index, pairs) THEN Raise("ValueError")
    ELSE LET bv == binding_value(index, msg, pairs, indexes)
         IN  IF ~Returned(bv) THEN bv
             ELSE LET first_commitment == pairs[index][1]
                      second_commitment == pairs[index][2]
                  IN  Return(PointAdd(acc,
                          PointAdd(first_commitment,
                                   ScalarMul(bv.val, second_commitment))))

RECURSIVE Accumulate(_, _, _, _, _)
\* the loop of group_commitment over `order`; the source traverses
\* participant_indexes itself (order = indexes)
Accumulate(acc, order, msg, pairs, indexes) ==
    IF order = <<>> THEN Return(acc)
    ELSE LET r == LoopBody(acc, Head(order), msg, pairs, indexes)
         IN  IF ~Returned(r) THEN r
             ELSE Accumulate(r.val, Tail(order), msg, pairs, indexes)

\* the accumulator started at a curve point instead of Point()
StartPoint_generator == Pt(7, 5)

\* the accumulator starts as Point(), the point at infinity
StartPoint == Infinity

group_commitment(msg, pairs, indexes) ==
    Accumulate(StartPoint, indexes, msg, pairs, indexes)

\* b"BIP0340/challenge"
ChallengeTag == <<66, 73, 80, 48, 51, 52, 48, 47,
                  99, 104, 97, 108, 108, 101, 110, 103, 101>>

\* challenge_hash with the public key hashed before the nonce commitment
challenge_hash_swapped(nonce_commitment, public_key, msg) ==
    LET tag_hash == digest(sha256(ChallengeTag))
        h2 == update(update(sha256_new, tag_hash), tag_hash)
        h3 == update(h2, xonly_serialize(public_key))
        h4 == update(h3, xonly_serialize(nonce_commitment))
    IN  Return(from_bytes(digest(update(h4, msg))) % Q)

challenge_hash(nonce_commitment, public_key, msg) ==
    LET tag_hash == digest(sha256(ChallengeTag))
        h1 == update(sha256_new, tag_hash)
        h2 == update(h1, tag_hash)
        h3 == update(h2, xonly_serialize(nonce_commitment))
        h4 == update(h3, xonly_serialize(public_key))
        h5 == update(h4, msg)
    IN  Return(from_bytes(digest(h5)) % Q)

RECURSIVE derive_shared_secret_from(_, _)
derive_shared_secret_from(shared_secret, shares) ==
    IF shares = <<>> THEN shared_secret
    ELSE derive_shared_secret_from(PointAdd(shared_secret, Head(shares)),
                                   Tail(shares))

derive_shared_secret(shared_secret_shares) ==
    Return(derive_shared_secret_from(Infinity, shared_secret_shares))

(***************************************************************************)
(* class Aggregator: the instance methods, over the object's fields        *)
(***************************************************************************)
signing_inputs == Return(<<message, nonce_commitment_pairs>>)

RECURSIVE sum(_)
sum(shares) == IF shares = <<>> THEN 0 ELSE Head(shares) + sum(Tail(shares))

\* signature without the reduction of the sum modulo Q
signature_unreduced(signature_shares) ==
    LET gc == group_commitment(message, nonce_commitment_pairs,
                               participant_indexes)
    IN  IF ~Returned(gc) THEN gc
        ELSE LET z == sum(signature_shares)
             IN  IF ~Fits(z, 32) THEN Raise("OverflowError")
                 ELSE Return(hex(xonly_serialize(gc.val) \o to_bytes(z, 32)))

signature(signature_shares) ==
    LET gc == group_commitment(message, nonce_commitment_pairs,
                               participant_indexes)
    IN  IF ~Returned(gc) THEN gc
        ELSE LET nonce_commitment == xonly_serialize(gc.val)
                 z == sum(signature_shares) % Q
             IN  IF ~Fits(z, 32) THEN Raise("OverflowError")
                 ELSE Return(hex(nonce_commitment \o to_bytes(z, 32)))

(***************************************************************************)
(* Inputs                                                                  *)
(***************************************************************************)
MaxPairs == 2

MaxActive == 2

MaxShares == 2

RECURSIVE SeqsUpTo(_, _)
\* the sequences over S of length at most n
SeqsUpTo(S, n) ==
    IF n = 0 THEN {<<>>}
    ELSE LET shorter == SeqsUpTo(S, n - 1)
         IN  shorter \cup {Append(q, e) : q \in shorter, e \in S}

Messages == {<<>>, <<1>>}

PairChoices == {<<Pt(7, 5), Pt(8, 8)>>, <<Pt(11, 5), Pt(7, 8)>>}

\* a registry of n pairs, for n too large to enumerate the registries
Registry(n) ==
    [i \in 1 .. n |->
        IF i % 2 = 1 THEN <<Pt(7, 5), Pt(8, 8)>> ELSE <<Pt(11, 5), Pt(7, 8)>>]

\* every short registry, and registries around the range of one byte
PairSeqs ==
    SeqsUpTo(PairChoices, MaxPairs)
        \cup {Registry(ByteRange - 1), Registry(ByteRange)}

\* the indexes at both ends of [1, n] and just outside it
IndexChoices(n) == {0, 1, n, n + 1}

\* negative, small, and not below Q
ShareChoices == {-1, 1, Q + 1}

ShareSeqs == SeqsUpTo(ShareChoices, MaxShares)

SecretShareSeqs == SeqsUpTo({Pt(7, 5), Pt(7, 8)}, MaxShares)

PublicKeys == {Pt(8, 5), Pt(11, 8), Infinity}

Contexts ==
    {[message |-> m, pairs |-> ps, indexes |-> ix] :
        m \in Messages,
        <<ps, ix>> \in
            UNION {{<<q, j>> : j \in SeqsUpTo(IndexChoices(Len(q)), MaxActive)} :
                   q \in PairSeqs}}

(***************************************************************************)
(* The object and the calls on it                                          *)
(***************************************************************************)
Call(op, arg, ret) == [op |-> op, arg |-> arg, ret |-> ret]

Frame == UNCHANGED <<message, nonce_commitment_pairs, participant_indexes, given>>

\* the caller holds no result: nothing was called yet, or the last result was
\* dropped
NoCall == Call("none", <<>>, Return(<<>>))

\* Aggregator.__init__: the three fields are the three arguments
Init ==
    /\ given \in Contexts
    /\ message = given.message
    /\ nonce_commitment_pairs = given.pairs
    /\ participant_indexes = given.indexes
    /\ result = NoCall

SigningInputs ==
    /\ result = NoCall
    /\ result' = Call("signing_inputs", <<>>, signing_inputs)
    /\ Frame

Signature ==
    /\ result = NoCall
    /\ \E shares \in ShareSeqs :
           result' = Call("signature", shares, signature(shares))
    /\ Frame

\* group_commitment consuming the participant indexes of the object it is
\* called on
GroupCommitment_draining ==
    /\ result = NoCall
    /\ result' = Call("group_commitment", <<>>,
                      group_commitment(message, nonce_commitment_pairs,
                                       participant_indexes))
    /\ participant_indexes' = <<>>
    /\ UNCHANGED <<message, nonce_commitment_pairs, given>>

\* the class methods, called as the signers call them: on the signing inputs
GroupCommitment ==
    /\ result = NoCall
    /\ result' = Call("group_commitment", <<>>,
                      group_commitment(message, nonce_commitment_pairs,
                                       participant_indexes))
    /\ Frame

BindingValue ==
    /\ result = NoCall
    /\ \E l \in IndexChoices(Len(nonce_commitment_pairs)) :
           result' = Call("binding_value", l,
                          binding_value(l, message, nonce_commitment_pairs,
                                        participant_indexes))
    /\ Frame

ChallengeHash ==
    /\ result = NoCall
    /\ \E R \in Points, Y \in PublicKeys :
           result' = Call("challenge_hash", <<R, Y>>,
                          challenge_hash(R, Y, message))
    /\ Frame

DeriveSharedSecret ==
    /\ result = NoCall
    /\ \E shares \in SecretShareSeqs :
           result' = Call("derive_shared_secret", shares,
                          derive_shared_secret(shares))
    /\ Frame

\* the caller drops the result it holds and is free to call again
Discard ==
    /\ result # NoCall
    /\ result' = NoCall
    /\ Frame

Next ==
    \/ SigningInputs
    \/ Signature
    \/ GroupCommitment
    \/ BindingValue
    \/ ChallengeHash
    \/ DeriveSharedSecret
    \/ Discard

Spec == Init /\ [][Next]_vars

(***************************************************************************)
(* Vocabulary of the properties                                            *)
(***************************************************************************)
\* n, the number of registered nonce-commitment pairs
Registered == Len(nonce_commitment_pairs)

\* every entry of the participant-index sequence is in [1, n]
AllInRange ==
    \A i \in 1 .. Len(participant_indexes) :
        /\ participant_indexes[i] >= 1
        /\ participant_indexes[i] <= Registered

Did(op) == result.op = op

\* the reorderings of a sequence
Reorderings(seq) ==
    {[i \in 1 .. Len(seq) |-> seq[f[i]]] :
        f \in {g \in [1 .. Len(seq) -> 1 .. Len(seq)] :
                  \A a, b \in 1 .. Len(seq) : a # b => g[a] # g[b]}}

\* the byte a pair of hex characters stands for
HexValue(c) == CHOOSE k \in 0 .. 15 : HexDigits[k + 1] = c

Unhex(str) ==
    [i \in 1 .. Len(str) \div 2 |->
        16 * HexValue(str[2 * i - 1]) + HexValue(str[2 * i])]

IsHex(str) == \A i \in 1 .. Len(str) : \E k \in 1 .. 16 : HexDigits[k] = str[i]

\* D then E of the pair of participant l, in full encoding
Block(pairs, l) == sec_serialize(pairs[l][1]) \o sec_serialize(pairs[l][2])

\* the session's group commitment
SessionCommitment ==
    group_commitment(message, nonce_commitment_pairs, participant_indexes)

\* the binding value of participant l in this session
SessionBinding(l) ==
    binding_value(l, message, nonce_commitment_pairs, participant_indexes)

(***************************************************************************)
(* C1                                                                      *)
(***************************************************************************)
\* C1: binding_value fails with the out-of-range error for l = 0 and for
\* l = n + 1, and group_commitment fails with the out-of-range error whenever
\* the participant-index sequence contains 0 or n + 1.
C1_OutOfRangeRejected ==
    /\ (Did("binding_value") /\ result.arg \in {0, Registered + 1})
          => result.ret.err = "ValueError"
    /\ (/\ Did("group_commitment")
        /\ \E i \in 1 .. Len(participant_indexes) :
               participant_indexes[i] \in {0, Registered + 1})
          => result.ret.err = "ValueError"

\* the part of C1 that the code does: binding_value rejects l = 0 with the
\* out-of-range error, and group_commitment returns no point when the
\* sequence contains 0 or n + 1
C1_RejectedByTheCode ==
    /\ (Did("binding_value") /\ result.arg = 0)
          => result.ret.err = "ValueError"
    /\ (/\ Did("group_commitment")
        /\ \E i \in 1 .. Len(participant_indexes) :
               participant_indexes[i] \in {0, Registered + 1})
          => ~Returned(result.ret)

(***************************************************************************)
(* C2                                                                      *)
(***************************************************************************)
\* what C2 says of a returned signature string for the shares given
WellFormedSignature(str, shares) ==
    /\ Len(str) = 128
    /\ IsHex(str)
    /\ Len(Unhex(str)) = 64
    /\ SubSeq(Unhex(str), 1, 32) = xonly_serialize(SessionCommitment.val)
    /\ from_bytes(SubSeq(Unhex(str), 33, 64)) = sum(shares) % Q
    /\ from_bytes(SubSeq(Unhex(str), 33, 64)) \in 0 .. Q - 1
    /\ (sum(shares) % Q = 0
          => \A i \in 33 .. 64 : Unhex(str)[i] = 0)

C3_TraversalOrderIrrelevant ==
    (Did("group_commitment") /\ AllInRange)
        => \A order \in Reorderings(participant_indexes) :
               Accumulate(StartPoint, order, message, nonce_commitment_pairs,
                          participant_indexes) = result.ret

\* two different participants with different terms, accumulated to a point
C3_Witness ==
    /\ Did("group_commitment")
    /\ AllInRange
    /\ Returned(result.ret)
    /\ Len(participant_indexes) = 2
    /\ participant_indexes[1] # participant_indexes[2]
    /\ LoopBody(Infinity, participant_indexes[1], message,
                nonce_commitment_pairs, participant_indexes)
         # LoopBody(Infinity, participant_indexes[2], message,
                    nonce_commitment_pairs, participant_indexes)

(***************************************************************************)
(* C4                                                                      *)
(***************************************************************************)
\* C4: with an empty participant-index sequence group_commitment returns the
\* point at infinity, whatever the message and the registered pairs.
C4_EmptySetIdentity ==
    (Did("group_commitment") /\ participant_indexes = <<>>)
        => result.ret = Return(Infinity)

C4_Witness ==
    /\ Did("group_commitment")
    /\ participant_indexes = <<>>
    /\ nonce_commitment_pairs # <<>>
    /\ message # <<>>

\* also with no pair registered at all
C4_WitnessNoPairs ==
    /\ Did("group_commitment")
    /\ participant_indexes = <<>>
    /\ nonce_commitment_pairs = <<>>

(***************************************************************************)
(* C5                                                                      *)
(***************************************************************************)
\* C5: whatever was called, and whether it returned or raised, the three
\* fields are those given to the constructor and signing_inputs() returns the
\* constructor's message and nonce-commitment sequence.
C5_FieldsNeverChange ==
    /\ signing_inputs = Return(<<given.message, given.pairs>>)
    /\ participant_indexes = given.indexes
    /\ Did("signing_inputs")
          => result.ret = Return(<<given.message, given.pairs>>)

\* a call has failed
C5_Witness ==
    /\ Did("signature")
    /\ ~Returned(result.ret)
    /\ given.pairs # <<>>

(***************************************************************************)
(* C6                                                                      *)
(***************************************************************************)
\* C6: for a session whose participant indexes are all in range, signature
\* rejects no share sequence, and two share sequences with sums congruent
\* modulo Q give the identical signature string.
C6_NoShareRejected ==
    (Did("signature") /\ AllInRange)
        => /\ Returned(result.ret)
           /\ \A other \in ShareSeqs :
                  sum(other) % Q = sum(result.arg) % Q
                      => signature(other) = result.ret

\* every participant index of the session has a 1-byte encoding
IndexesFitOneByte ==
    \A i \in 1 .. Len(participant_indexes) : participant_indexes[i] < ByteRange

\* C6 where the failure of C10 cannot occur: the claim holds for the
\* sessions whose indexes are all below 256
C6_NoShareRejectedBelow256 ==
    (Did("signature") /\ AllInRange /\ IndexesFitOneByte)
        => /\ Returned(result.ret)
           /\ \A other \in ShareSeqs :
                  sum(other) % Q = sum(result.arg) % Q
                      => signature(other) = result.ret

(***************************************************************************)
(* C7                                                                      *)
(***************************************************************************)
\* D_l + binding_value(l, message, pairs, S) * E_l
Term(l) ==
    PointAdd(nonce_commitment_pairs[l][1],
             ScalarMul(SessionBinding(l).val, nonce_commitment_pairs[l][2]))

RECURSIVE SumOfTerms(_)
\* the curve sum, from the identity, over the first k positions of S
SumOfTerms(k) ==
    IF k = 0 THEN Infinity
    ELSE PointAdd(SumOfTerms(k - 1), Term(participant_indexes[k]))

\* C7: for in-range participant indexes, group_commitment is the curve sum
\* over every position of the sequence (a repeated index counted at each of
\* its positions) of D_l + binding_value(l, ...) * E_l.
C7_SumOverPositions ==
    (Did("group_commitment") /\ AllInRange)
        => /\ Returned(result.ret)
           /\ result.ret.val = SumOfTerms(Len(participant_indexes))

\* C7 where the failure of C10 cannot occur
C7_SumOverPositionsBelow256 ==
    (Did("group_commitment") /\ AllInRange /\ IndexesFitOneByte)
        => /\ Returned(result.ret)
           /\ result.ret.val = SumOfTerms(Len(participant_indexes))

\* a repeated index is accepted and counted twice
C7_DuplicateCountedTwice ==
    /\ Did("group_commitment")
    /\ Len(participant_indexes) = 2
    /\ participant_indexes[1] = participant_indexes[2]
    /\ AllInRange
    /\ Returned(result.ret)
    /\ result.ret.val = PointAdd(Term(participant_indexes[1]),
                                 Term(participant_indexes[1]))
    /\ result.ret.val # Term(participant_indexes[1])

(***************************************************************************)
(* C8                                                                      *)
(***************************************************************************)
\* the commitment blocks of the active participants, in the order of S
Blocks(pairs, indexes) ==
    Concat([i \in 1 .. Len(indexes) |-> Block(pairs, indexes[i])])

\* the participants that are not active
Inactive ==
    {j \in 1 .. Registered :
        \A i \in 1 .. Len(participant_indexes) : participant_indexes[i] # j}

\* C8: a binding value is the big-endian integer of the digest, not reduced,
\* of one hash over the byte l, the message, and the blocks D || E of the
\* active participants in the order of S; it lies in [0, 2^(8 * digest size))
\* and does not depend on the commitments of inactive participants.
C8_BindingValueIsHash ==
    (Did("binding_value") /\ Returned(result.ret))
        => /\ result.arg \in Byte
           /\ result.ret.val =
                  from_bytes(digest(sha256(
                      <<result.arg>> \o message
                          \o Blocks(nonce_commitment_pairs, participant_indexes))))
           /\ result.ret.val \in 0 .. HashSpace - 1
           /\ \A j \in Inactive, pr \in PairChoices :
                  binding_value(result.arg, message,
                                [nonce_commitment_pairs EXCEPT ![j] = pr],
                                participant_indexes) = result.ret

\* a binding value that is not below Q, that the reversed order of S changes,
\* that another commitment of either active participant changes, with an
\* inactive participant whose commitment could be another
C8_Witness ==
    /\ Did("binding_value")
    /\ Returned(result.ret)
    /\ result.ret.val >= Q
    /\ Len(participant_indexes) = 2
    /\ participant_indexes[1] # participant_indexes[2]
    /\ binding_value(result.arg, message, nonce_commitment_pairs,
                     <<participant_indexes[2], participant_indexes[1]>>)
         # result.ret
    /\ \A i \in 1 .. 2 : \E pr \in PairChoices :
           binding_value(result.arg, message,
                         [nonce_commitment_pairs
                             EXCEPT ![participant_indexes[i]] = pr],
                         participant_indexes) # result.ret
    /\ \E j \in Inactive, pr \in PairChoices :
           nonce_commitment_pairs[j] # pr

(***************************************************************************)
(* C9                                                                      *)
(***************************************************************************)
\* Hash(tag || tag || x_only(R) || x_only(Y) || m), tag = Hash("BIP0340/challenge")
TaggedDigest(R, Y, m) ==
    digest(sha256(digest(sha256(ChallengeTag)) \o digest(sha256(ChallengeTag))
                  \o xonly_serialize(R) \o xonly_serialize(Y) \o m))

\* C9: challenge_hash never fails and returns the tagged digest, read as a
\* big-endian integer and reduced modulo Q: an integer in [0, Q).
C9_ChallengeIsTaggedHash ==
    Did("challenge_hash")
        => /\ Returned(result.ret)
           /\ result.ret.val \in 0 .. Q - 1
           /\ result.ret.val =
                  from_bytes(TaggedDigest(result.arg[1], result.arg[2], message))
                      % Q

\* a digest that is not below Q, and a challenge that exchanging the two
\* points changes
C9_Witness ==
    /\ Did("challenge_hash")
    /\ Returned(result.ret)
    /\ message # <<>>
    /\ from_bytes(TaggedDigest(result.arg[1], result.arg[2], message)) >= Q
    /\ challenge_hash(result.arg[2], result.arg[1], message) # result.ret

(***************************************************************************)
(* C10                                                                     *)
(***************************************************************************)
\* C10: for every n, binding_value returns a binding factor whenever
\* 1 <= l <= n and every index of the sequence is in [1, n].
C10_ValidIndexNeverFails ==
    (/\ Did("binding_value")
     /\ result.arg >= 1
     /\ result.arg <= Registered
     /\ AllInRange)
        => Returned(result.ret)

\* C10 for the participant indexes below 256
C10_ValidIndexNeverFailsBelow256 ==
    (/\ Did("binding_value")
     /\ result.arg >= 1
     /\ result.arg <= Registered
     /\ result.arg < ByteRange
     /\ AllInRange)
        => Returned(result.ret)

====
